---- MODULE Spec2Model ----
(***************************************************************************)
(* generate_splat.py: a command-line wrapper that validates two arguments, *)
(* prepares the output directory, announces the start, runs the external   *)
(* tool `sharp predict` to completion and reports one final JSON message.  *)
(*                                                                         *)
(* The model follows main() statement by statement.  Standard output is a  *)
(* buffer (what print() has written and the interpreter has not yet handed *)
(* to the reader) and a stream (what the reader of the pipe can see).      *)
(* json.dumps writes one object on one line, so the stream is modelled as  *)
(* the sequence of the objects printed.  The file system and the external  *)
(* tool are the environment: the file system is fixed in Init, the tool's  *)
(* exit status, error text and written entries are chosen when it exits.   *)
(***************************************************************************)
EXTENDS Naturals, Integers, Sequences, FiniteSets, TLC

VARIABLES
    sys_argv,       \* sys.argv: the program name, then the arguments
    fs,             \* the kind of file-system entry at each path
    entries,        \* names of the immediate entries of the output directory
    lineBuffered,   \* stdout is a terminal: every print() reaches the reader at once
    pc,             \* position of main()
    input_image,    \* Path(sys.argv[1])
    output_dir,     \* Path(sys.argv[2])
    buf,            \* stdout: printed, not yet flushed
    out,            \* stdout: what the reader has received
    tool,           \* the child process: not_started, running, hanging, exited
    result,         \* subprocess.CompletedProcess: returncode, stderr
    ply_files,      \* list(output_dir.glob("*.ply"))
    exit,           \* <<>> while running, <<code>> once the process has ended
    terminal,       \* which end main() reached
    steps,          \* how many times each step of main() has executed
    fs0             \* the file system before the run

vars == <<sys_argv, fs, entries, lineBuffered, pc, input_image, output_dir, buf, out,
          tool, result, ply_files, exit, terminal, steps, fs0>>

-----------------------------------------------------------------------------
(* Bounds of the model *)

\* most arguments given after the program name
MaxArgs == 3
\* most entries already in the output directory before the run
MaxPreExisting == 1
\* most entries the external tool writes
MaxWritten == 1

-----------------------------------------------------------------------------
(* Strings and paths *)

ProgramName == "generate_splat.py"

\* argument strings a caller may pass, normalised and not
ArgStrings == {"pics/./img.png", "/tmp//out/"}

\* entry names that may appear in the output directory
EntryNames == {"model.ply", "old.ply", "model.PLY", "ply"}

StderrTexts == {"", "boom"}

ReturnCodes == {0, 1, -9}

RECURSIVE Split(_, _, _)
\* s.split("/"): the components of s between slashes
Split(s, cur, acc) ==
    IF s = "" THEN Append(acc, cur)
    ELSE IF Head(s) = "/" THEN Split(Tail(s), "", Append(acc, cur))
    ELSE Split(Tail(s), cur \o Head(s), acc)

RECURSIVE Join(_)
Join(parts) ==
    IF parts = <<>> THEN ""
    ELSE IF Len(parts) = 1 THEN parts[1]
    ELSE parts[1] \o "/" \o Join(Tail(parts))

\* str(Path(s)): empty and "." components are dropped, so is a trailing slash;
\* the root is kept; the empty path is "."
PathStr(s) ==
    LET parts == SelectSeq(Split(s, "", <<>>), LAMBDA c : c # "" /\ c # ".")
        root  == IF s # "" /\ Head(s) = "/" THEN "/" ELSE ""
        body  == Join(parts)
    IN  IF root = "" /\ body = "" THEN "." ELSE root \o body

\* str(dir / name), as glob() builds the path of an entry
PathJoin(dir, name) ==
    IF dir = "." THEN name
    ELSE IF dir = "/" THEN "/" \o name
    ELSE dir \o "/" \o name

EndsWith(s, suffix) ==
    /\ Len(s) >= Len(suffix)
    /\ SubSeq(s, Len(s) - Len(suffix) + 1, Len(s)) = suffix

\* the pattern written without its dot: "*ply"
MatchesPlyNoDot(name) == EndsWith(name, "ply")

\* fnmatch of a name against the pattern "*.ply"
MatchesPly(name) == EndsWith(name, ".ply")

\* output_dir.glob("*.ply") on a listing of the directory
Glob(listing) == SelectSeq(listing, MatchesPly)

Paths == {PathStr(a) : a \in ArgStrings}

Kinds == {"absent", "file", "dir"}

\* the test with its `not` dropped
ExistsNegated(p) == fs[p] = "absent"

\* Path.exists()
Exists(p) == fs[p] # "absent"

\* the orders in which the directory may enumerate its entries
Enumerations(S) ==
    {s \in [1..Cardinality(S) -> S] : \A i, j \in 1..Cardinality(S) : s[i] = s[j] => i = j}

SmallSubsets(S, n) == {T \in SUBSET S : Cardinality(T) <= n}

RECURSIVE SeqsUpTo(_, _)
SeqsUpTo(S, n) ==
    IF n = 0 THEN {<<>>}
    ELSE LET shorter == SeqsUpTo(S, n - 1)
         IN  shorter \cup {Append(s, x) : s \in {t \in shorter : Len(t) = n - 1}, x \in S}

-----------------------------------------------------------------------------
(* Messages *)

UsageText == "Usage: generate_splat.py <input_image> <output_dir>"

ErrorMessage(text) == [error |-> text]

StartingMessage == [status |-> "starting", message |-> "Loading SHARP model..."]

CompleteMessage(path) ==
    [status |-> "complete", output_path |-> path,
     message |-> "3D splat generated successfully!"]

IsError(m) == DOMAIN m = {"error"}

IsStarting(m) == "status" \in DOMAIN m /\ m.status = "starting"

IsComplete(m) == "status" \in DOMAIN m /\ m.status = "complete"

IsFinal(m) == IsError(m) \/ IsComplete(m)

-----------------------------------------------------------------------------
(* Steps of main() *)

StepNames == {"validate_args", "check_input", "mkdir", "emit_starting", "flush",
              "run_tool", "scan", "emit_final"}

Did(names) == [s \in StepNames |-> IF s \in names THEN steps[s] + 1 ELSE steps[s]]

Init ==
    /\ sys_argv \in {<<ProgramName>> \o a : a \in SeqsUpTo(ArgStrings, MaxArgs)}
    /\ fs \in [Paths -> Kinds]
    /\ entries \in (IF Len(sys_argv) >= 3 /\ fs[PathStr(sys_argv[3])] = "dir"
                    THEN SmallSubsets(EntryNames, MaxPreExisting)
                    ELSE {{}})
    /\ lineBuffered \in BOOLEAN
    /\ pc = "validate_args"
    /\ input_image = ""
    /\ output_dir = ""
    /\ buf = <<>>
    /\ out = <<>>
    /\ tool = "not_started"
    /\ result = [returncode |-> 0, stderr |-> ""]
    /\ ply_files = <<>>
    /\ exit = <<>>
    /\ terminal = "none"
    /\ steps = [s \in StepNames |-> 0]
    /\ fs0 = fs

\* print(json.dumps(m)): the line goes to the buffer, and through it when
\* stdout is line buffered
Printed(m) == IF lineBuffered THEN <<>> ELSE Append(buf, m)

Delivered(m) == IF lineBuffered THEN out \o buf \o <<m>> ELSE out

\* the process ends: the interpreter flushes stdout on its way out
Ended(code, how, pending) ==
    /\ out' = out \o pending
    /\ buf' = <<>>
    /\ exit' = <<code>>
    /\ terminal' = how
    /\ pc' = "exited"

\* sys.exit(0) written for sys.exit(1)
PrintAndExitZero(m, code, how) == Ended(0, how, buf \o <<m>>)

\* print(json.dumps(m)); sys.exit(code)
PrintAndExit(m, code, how) == Ended(code, how, buf \o <<m>>)

\* the fault caught and reported as an error message
UnhandledCaught(how) == Ended(1, how, buf \o <<[error |-> "Unexpected failure"]>>)

\* an exception nobody catches: traceback on stderr, exit status 1
Unhandled(how) == Ended(1, how, buf)

TooFewArgs == Len(sys_argv) < 3

\* the usage text sent to stderr instead of stdout
UsageErrorToStderr ==
    /\ pc = "validate_args"
    /\ TooFewArgs
    /\ Ended(1, "usage", buf)
    /\ steps' = Did({"validate_args", "emit_final"})
    /\ UNCHANGED <<sys_argv, fs, entries, lineBuffered, input_image, output_dir,
                   tool, result, ply_files, fs0>>

UsageError ==
    /\ pc = "validate_args"
    /\ TooFewArgs
    /\ PrintAndExit(ErrorMessage(UsageText), 1, "usage")
    /\ steps' = Did({"validate_args", "emit_final"})
    /\ UNCHANGED <<sys_argv, fs, entries, lineBuffered, input_image, output_dir,
                   tool, result, ply_files, fs0>>

ParseArgs ==
    /\ pc = "validate_args"
    /\ ~TooFewArgs
    /\ input_image' = PathStr(sys_argv[2])
    /\ output_dir' = PathStr(sys_argv[3])
    /\ pc' = "check_input"
    /\ steps' = Did({"validate_args"})
    /\ UNCHANGED <<sys_argv, fs, entries, lineBuffered, buf, out, tool, result,
                   ply_files, exit, terminal, fs0>>

InputNotFound ==
    /\ pc = "check_input"
    /\ ~Exists(input_image)
    /\ PrintAndExit(ErrorMessage("Input image not found: " \o input_image), 1, "not_found")
    /\ steps' = Did({"check_input", "emit_final"})
    /\ UNCHANGED <<sys_argv, fs, entries, lineBuffered, input_image, output_dir,
                   tool, result, ply_files, fs0>>

InputFound ==
    /\ pc = "check_input"
    /\ Exists(input_image)
    /\ pc' = "mkdir"
    /\ steps' = Did({"check_input"})
    /\ UNCHANGED <<sys_argv, fs, entries, lineBuffered, input_image, output_dir, buf,
                   out, tool, result, ply_files, exit, terminal, fs0>>

\* mkdir without exist_ok: an existing directory is an error too
MkdirOutcomesNoExistOk(f, p) ==
    IF f[p] = "absent"
    THEN {[ok |-> TRUE, fs |-> [f EXCEPT ![p] = "dir"]], [ok |-> FALSE, fs |-> f]}
    ELSE {[ok |-> FALSE, fs |-> f]}

\* Path.mkdir(parents=True, exist_ok=True) on p in file system f: an existing
\* directory is left alone; a missing one is created with its parents, unless the
\* system refuses; any other entry at p is an error that exist_ok does not forgive
MkdirOutcomes(f, p) ==
    IF f[p] = "dir" THEN {[ok |-> TRUE, fs |-> f]}
    ELSE IF f[p] = "absent"
         THEN {[ok |-> TRUE, fs |-> [f EXCEPT ![p] = "dir"]], [ok |-> FALSE, fs |-> f]}
         ELSE {[ok |-> FALSE, fs |-> f]}

MkdirOk ==
    /\ pc = "mkdir"
    /\ \E o \in MkdirOutcomes(fs, output_dir) :
          /\ o.ok
          /\ fs' = o.fs
    /\ pc' = "emit_starting"
    /\ steps' = Did({"mkdir"})
    /\ UNCHANGED <<sys_argv, entries, lineBuffered, input_image, output_dir, buf, out,
                   tool, result, ply_files, exit, terminal, fs0>>

MkdirFault ==
    /\ pc = "mkdir"
    /\ \E o \in MkdirOutcomes(fs, output_dir) :
          /\ ~o.ok
          /\ fs' = o.fs
    /\ Unhandled("mkdir_fault")
    /\ steps' = Did({"mkdir"})
    /\ UNCHANGED <<sys_argv, entries, lineBuffered, input_image, output_dir, tool,
                   result, ply_files, fs0>>

EmitStarting ==
    /\ pc = "emit_starting"
    /\ buf' = Printed(StartingMessage)
    /\ out' = Delivered(StartingMessage)
    /\ pc' = "flush"
    /\ steps' = Did({"emit_starting"})
    /\ UNCHANGED <<sys_argv, fs, entries, lineBuffered, input_image, output_dir, tool,
                   result, ply_files, exit, terminal, fs0>>

\* the flush left out
FlushStdoutSkipped ==
    /\ pc = "flush"
    /\ pc' = "run_tool"
    /\ steps' = Did({"flush"})
    /\ UNCHANGED <<sys_argv, fs, entries, lineBuffered, input_image, output_dir, buf,
                   out, tool, result, ply_files, exit, terminal, fs0>>

\* sys.stdout.flush()
FlushStdout ==
    /\ pc = "flush"
    /\ out' = out \o buf
    /\ buf' = <<>>
    /\ pc' = "run_tool"
    /\ steps' = Did({"flush"})
    /\ UNCHANGED <<sys_argv, fs, entries, lineBuffered, input_image, output_dir, tool,
                   result, ply_files, exit, terminal, fs0>>

\* subprocess.run starts `sharp predict -i input_image -o output_dir` and waits;
\* whether the child ever exits is the child's affair
SpawnTool ==
    /\ pc = "run_tool"
    /\ tool' \in {"running", "hanging"}
    /\ pc' = "waiting"
    /\ steps' = Did({"run_tool"})
    /\ UNCHANGED <<sys_argv, fs, entries, lineBuffered, input_image, output_dir, buf,
                   out, result, ply_files, exit, terminal, fs0>>

\* subprocess.run cannot start the child (no `sharp` on the path, ...)
SpawnFault ==
    /\ pc = "run_tool"
    /\ Unhandled("spawn_fault")
    /\ steps' = Did({"run_tool"})
    /\ UNCHANGED <<sys_argv, fs, entries, lineBuffered, input_image, output_dir, tool,
                   result, ply_files, fs0>>

\* the child exits: subprocess.run returns its status and captured stderr; the
\* child may have written entries into the output directory
ToolExit ==
    /\ pc = "waiting"
    /\ tool = "running"
    /\ \E rc \in ReturnCodes, err \in StderrTexts,
          written \in SmallSubsets(EntryNames, MaxWritten) :
          /\ result' = [returncode |-> rc, stderr |-> err]
          /\ entries' = entries \cup written
    /\ tool' = "exited"
    /\ pc' = "check_returncode"
    /\ UNCHANGED <<sys_argv, fs, lineBuffered, input_image, output_dir, buf, out,
                   ply_files, exit, terminal, steps, fs0>>

\* `returncode > 0` tested for `returncode != 0`: a child killed by a signal passes
ToolSucceededUnlessPositive == ~(result.returncode > 0)

ToolSucceeded == result.returncode = 0

\* the error printed without sys.exit(1): main() goes on to scan the directory
ToolFailedNoExit ==
    /\ pc = "check_returncode"
    /\ ~ToolSucceeded
    /\ buf' = Printed(ErrorMessage("SHARP failed: " \o result.stderr))
    /\ out' = Delivered(ErrorMessage("SHARP failed: " \o result.stderr))
    /\ \E listing \in Enumerations(entries) : ply_files' = Glob(listing)
    /\ pc' = "check_ply"
    /\ steps' = Did({"emit_final", "scan"})
    /\ UNCHANGED <<sys_argv, fs, entries, lineBuffered, input_image, output_dir,
                   tool, result, exit, terminal, fs0>>

\* a failed tool run once more before giving up
ToolFailedRetryOnce ==
    /\ pc = "check_returncode"
    /\ ~ToolSucceeded
    /\ IF steps["run_tool"] < 2
       THEN /\ pc' = "run_tool"
            /\ tool' = "not_started"
            /\ UNCHANGED <<buf, out, exit, terminal, steps>>
       ELSE /\ PrintAndExit(ErrorMessage("SHARP failed: " \o result.stderr), 1,
                            "tool_failed")
            /\ steps' = Did({"emit_final"})
            /\ UNCHANGED tool
    /\ UNCHANGED <<sys_argv, fs, entries, lineBuffered, input_image, output_dir,
                   result, ply_files, fs0>>

ToolFailed ==
    /\ pc = "check_returncode"
    /\ ~ToolSucceeded
    /\ PrintAndExit(ErrorMessage("SHARP failed: " \o result.stderr), 1, "tool_failed")
    /\ steps' = Did({"emit_final"})
    /\ UNCHANGED <<sys_argv, fs, entries, lineBuffered, input_image, output_dir,
                   tool, result, ply_files, fs0>>

ScanOutputDir ==
    /\ pc = "check_returncode"
    /\ ToolSucceeded
    /\ \E listing \in Enumerations(entries) : ply_files' = Glob(listing)
    /\ pc' = "check_ply"
    /\ steps' = Did({"scan"})
    /\ UNCHANGED <<sys_argv, fs, entries, lineBuffered, input_image, output_dir, buf,
                   out, tool, result, exit, terminal, fs0>>

NoPly ==
    /\ pc = "check_ply"
    /\ ply_files = <<>>
    /\ PrintAndExit(ErrorMessage("No .ply file generated"), 1, "no_ply")
    /\ steps' = Did({"emit_final"})
    /\ UNCHANGED <<sys_argv, fs, entries, lineBuffered, input_image, output_dir,
                   tool, result, ply_files, fs0>>

\* the complete message is printed and main() returns: exit status 0
EmitComplete ==
    /\ pc = "check_ply"
    /\ ply_files # <<>>
    /\ PrintAndExit(CompleteMessage(PathJoin(output_dir, ply_files[1])), 0, "success")
    /\ steps' = Did({"emit_final"})
    /\ UNCHANGED <<sys_argv, fs, entries, lineBuffered, input_image, output_dir,
                   tool, result, ply_files, fs0>>

Next ==
    \/ UsageError
    \/ ParseArgs
    \/ InputNotFound
    \/ InputFound
    \/ MkdirOk
    \/ MkdirFault
    \/ EmitStarting
    \/ FlushStdout
    \/ SpawnTool
    \/ SpawnFault
    \/ ToolExit
    \/ ToolFailed
    \/ ScanOutputDir
    \/ NoPly
    \/ EmitComplete

Spec == Init /\ [][Next]_vars

-----------------------------------------------------------------------------
(* What the claims speak of *)

Exited == pc = "exited"

Handled == terminal \in {"usage", "not_found", "tool_failed", "no_ply", "success"}

Faulted == terminal \in {"mkdir_fault", "spawn_fault"}

\* everything print() has been given so far, flushed or not
Written == out \o buf

Last(s) == s[Len(s)]

Finals(s) == SelectSeq(s, IsFinal)

Startings(s) == SelectSeq(s, IsStarting)

\* C1: a run that ends in a handled terminal state has written exactly one final
\* message (error or complete), it is the last object on standard output, and
\* the only thing before it is at most one starting message.
C1_OneFinalMessage ==
    (Exited /\ Handled) =>
        /\ buf = <<>>
        /\ Len(out) \in {1, 2}
        /\ IsFinal(Last(out))
        /\ Len(Finals(out)) = 1
        /\ Len(out) = 2 => IsStarting(out[1])

C1_Witness ==
    /\ Exited
    /\ terminal = "success"
    /\ Len(out) = 2
    /\ IsStarting(out[1])
    /\ IsComplete(out[2])

\* C2: the exit code is 0 exactly on the success path, where the last message
\* is the complete message; usage, not-found, tool-failure and no-ply runs end
\* with exit code 1 and an error message last.
C2_ExitCodes ==
    Exited =>
        /\ exit = <<0>> <=> terminal = "success"
        /\ exit = <<0>> => (out # <<>> /\ IsComplete(Last(out)))
        /\ terminal \in {"usage", "not_found", "tool_failed", "no_ply"} =>
              (exit = <<1>> /\ out # <<>> /\ IsError(Last(out)))

C2_Witness ==
    /\ Exited
    /\ terminal = "no_ply"
    /\ exit = <<1>>
    /\ IsError(Last(out))

\* C3: with fewer than two arguments the run emits only the usage error, exits
\* with 1 and does nothing else: no input check, no directory creation, no
\* starting message, no tool.
C3_UsageError ==
    Len(sys_argv) - 1 < 2 =>
        /\ pc \in {"validate_args", "exited"}
        /\ fs = fs0
        /\ tool = "not_started"
        /\ \A s \in {"check_input", "mkdir", "emit_starting", "run_tool", "scan"} :
              steps[s] = 0
        /\ Exited =>
              /\ out = <<[error |-> "Usage: generate_splat.py <input_image> <output_dir>"]>>
              /\ exit = <<1>>

C3_Witness ==
    /\ Len(sys_argv) = 2
    /\ Exited
    /\ terminal = "usage"
    /\ \E p \in Paths : fs[p] = "absent"

\* the spelling pathlib gives each argument string of the model
CanonicalSpelling(arg) ==
    CASE arg = "pics/./img.png" -> "pics/img.png"
      [] arg = "/tmp//out/" -> "/tmp/out"

\* C4: with two or more arguments and an input path that does not exist, the
\* run emits "Input image not found: <path>", exits with 1 and changes nothing:
\* no directory creation, no starting message, no tool.
C4_InputNotFound ==
    (Len(sys_argv) - 1 >= 2 /\ fs0[CanonicalSpelling(sys_argv[2])] = "absent") =>
        /\ pc \in {"validate_args", "check_input", "exited"}
        /\ fs = fs0
        /\ tool = "not_started"
        /\ \A s \in {"mkdir", "emit_starting", "run_tool", "scan"} : steps[s] = 0
        /\ Exited =>
              /\ out = <<[error |-> "Input image not found: "
                                      \o CanonicalSpelling(sys_argv[2])]>>
              /\ exit = <<1>>

C4_Witness ==
    /\ Exited
    /\ terminal = "not_found"
    /\ sys_argv[2] = "pics/./img.png"
    /\ fs0[output_dir] = "absent"

\* C5: when the tool exits non-zero the final message is the error
\* "SHARP failed: " followed by the captured stderr, the exit code is 1, and
\* the output directory is never scanned, whatever it contains.
C5_ToolFailure ==
    (tool = "exited" /\ result.returncode # 0) =>
        /\ pc \in {"check_returncode", "exited"}
        /\ steps["scan"] = 0
        /\ \A i \in 1..Len(Written) : ~IsComplete(Written[i])
        /\ Exited =>
              /\ Last(out) = [error |-> "SHARP failed: " \o result.stderr]
              /\ exit = <<1>>

C5_Witness ==
    /\ Exited
    /\ tool = "exited"
    /\ result.returncode = 1
    /\ result.stderr = "boom"
    /\ "model.ply" \in entries
    /\ Last(out) = [error |-> "SHARP failed: boom"]

PlyEntries == {e \in entries : EndsWith(e, ".ply")}

\* C6: when the tool exits zero the final message is the complete message
\* exactly when the output directory holds an entry whose name ends in .ply
\* (written by the tool or there before); then output_path is the path of such
\* an entry and the exit code is 0; otherwise the final message is the error
\* "No .ply file generated" and the exit code is 1.
C6_ResultCollector ==
    (tool = "exited" /\ result.returncode = 0 /\ Exited) =>
        /\ IsComplete(Last(out)) <=> PlyEntries # {}
        /\ IsComplete(Last(out)) =>
              /\ \E e \in PlyEntries : Last(out).output_path = output_dir \o "/" \o e
              /\ exit = <<0>>
        /\ ~IsComplete(Last(out)) =>
              /\ Last(out) = [error |-> "No .ply file generated"]
              /\ exit = <<1>>

C6_Witness ==
    /\ Exited
    /\ terminal = "success"
    /\ sys_argv[3] = "/tmp//out/"
    /\ entries = {"old.ply", "ply"}
    /\ Last(out).output_path = "/tmp/out/old.ply"

\* C7: once the directory-preparation step has completed, the output directory
\* exists until the run ends, however it ends; preparing a directory that is
\* already there changes nothing and cannot fail, so preparing twice gives the
\* state that preparing once gives.
C7_OutputDirPrepared ==
    /\ (steps["mkdir"] = 1 /\ terminal # "mkdir_fault") => fs[output_dir] = "dir"
    /\ terminal = "mkdir_fault" => fs0[output_dir] # "dir"
    /\ pc = "mkdir" =>
          /\ fs[output_dir] = "dir" =>
                MkdirOutcomes(fs, output_dir) = {[ok |-> TRUE, fs |-> fs]}
          /\ \A o \in MkdirOutcomes(fs, output_dir) :
                o.ok => MkdirOutcomes(o.fs, output_dir) = {[ok |-> TRUE, fs |-> o.fs]}

C7_Witness ==
    /\ Exited
    /\ terminal = "tool_failed"
    /\ fs0[output_dir] = "absent"
    /\ fs[output_dir] = "dir"

\* the final messages that report on the tool
ReportsOnTool(m) ==
    \/ IsComplete(m)
    \/ IsError(m) /\ m.error \notin
          {"Usage: generate_splat.py <input_image> <output_dir>",
           "Input image not found: " \o input_image}

\* C8: the tool is spawned at most once, and only after the arguments were
\* validated, the input was found, the output directory was prepared and
\* exactly one starting message was printed and flushed; no final message about
\* the tool is printed before the tool has exited.
C8_SpawnOrder ==
    /\ steps["run_tool"] <= 1
    /\ tool # "not_started" =>
          /\ steps["validate_args"] = 1 /\ Len(sys_argv) - 1 >= 2
          /\ steps["check_input"] = 1 /\ fs0[input_image] # "absent"
          /\ steps["mkdir"] = 1 /\ fs[output_dir] = "dir"
          /\ steps["emit_starting"] = 1 /\ steps["flush"] = 1
          /\ out # <<>> /\ out[1] = StartingMessage
          /\ Len(Startings(Written)) = 1
    /\ pc = "waiting" => (out = <<StartingMessage>> /\ buf = <<>>)
    /\ tool # "exited" =>
          \A i \in 1..Len(Written) : ~ReportsOnTool(Written[i])

C8_Witness ==
    /\ pc = "waiting"
    /\ tool = "running"
    /\ ~lineBuffered
    /\ out = <<StartingMessage>>

\* C9: a fault of the operating system goes unhandled: the run ends at that
\* step with no error or complete message and no later step.  After a
\* directory-creation fault standard output is empty and the tool was never
\* spawned; after a spawn fault the starting message is all of standard output.
C9_UnhandledFaults ==
    /\ terminal = "mkdir_fault" =>
          /\ Exited
          /\ out = <<>> /\ buf = <<>>
          /\ tool = "not_started"
          /\ \A s \in {"emit_starting", "flush", "run_tool", "scan", "emit_final"} :
                steps[s] = 0
    /\ terminal = "spawn_fault" =>
          /\ Exited
          /\ out = <<StartingMessage>> /\ buf = <<>>
          /\ tool = "not_started"
          /\ \A s \in {"scan", "emit_final"} : steps[s] = 0

C9_Witness ==
    /\ Exited
    /\ terminal = "spawn_fault"
    /\ ~lineBuffered
    /\ fs0[output_dir] = "absent"

-----------------------------------------------------------------------------
(* Progress *)

\* the interpreter keeps executing main(); the step out of the wait is enabled
\* only for a child that exits
FairSpec == Spec /\ WF_vars(Next)

\* the place of each position in the text of main()
Rank(p) ==
    CASE p = "validate_args" -> 1
      [] p = "check_input" -> 2
      [] p = "mkdir" -> 3
      [] p = "emit_starting" -> 4
      [] p = "flush" -> 5
      [] p = "run_tool" -> 6
      [] p = "waiting" -> 7
      [] p = "check_returncode" -> 8
      [] p = "check_ply" -> 9
      [] p = "exited" -> 10

C10_EachStepOnce == \A s \in StepNames : steps[s] <= 1

C10_Forward == Rank(pc') > Rank(pc)

C10_Settled ==
    \/ tool = "hanging"
    \/ Exited /\ Faulted
    \/ Exited /\ Len(Finals(out)) = 1 /\ IsFinal(Last(out))

C10_Blocked ==
    /\ pc = "waiting"
    /\ out = <<StartingMessage>>
    /\ Finals(Written) = <<>>

\* C10: control only moves forward, so every step runs at most once; a run
\* whose tool exits and that meets no fault ends with its final message
\* emitted; a run whose tool never exits stays blocked after the starting
\* message and never emits a final message.
C10_LinearAndTerminating ==
    /\ []C10_EachStepOnce
    /\ [][C10_Forward]_vars
    /\ <>C10_Settled
    /\ [](tool = "hanging" => []C10_Blocked)

C10_Witness ==
    /\ tool = "hanging"
    /\ pc = "waiting"
    /\ out = <<StartingMessage>>

====
